---- MODULE Spec2Model ----
(***************************************************************************)
(* Model of function_app.py: the blob-triggered function ManipulateImage.  *)
(* One invocation decodes the blob, runs OCR, extracts keyword-matching    *)
(* boxes, filters them by area, and crops/uploads each surviving box.      *)
(*                                                                         *)
(* Coordinates returned by the OCR engine may be fractional; they are kept *)
(* in fixed point, in units of one half pixel (21 stands for 10.5).        *)
(* Text is a sequence of one-character strings.                            *)
(***************************************************************************)
EXTENDS Integers, Sequences, FiniteSets, TLC

VARIABLES
    inputBlob,            \* the triggering blob: its name and what its bytes hold
    pc,                   \* position of the invocation inside ManipulateImage
    exit,                 \* which way the invocation left the function
    image,                \* result of cv2.imdecode: "unset", "None" or <<height, width>>
    results,              \* what reader.readtext returned
    candidate_boxes,      \* list of (x, y, w, h)
    final_selected_tags,  \* list of (x, y, w, h) after the area filter
    i,                    \* enumerate() index of the crop loop (0-based)
    crops,                \* expanded_crop of every iteration run so far (as a region)
    uploads,              \* every upload_blob call made so far, with the tag it was made for
    readtext_calls,       \* number of reader.readtext calls
    blob_service_client,  \* TRUE once BlobServiceClient.from_connection_string returned
    host_exception        \* TRUE if an exception escaped ManipulateImage

vars == << inputBlob, pc, exit, image, results, candidate_boxes, final_selected_tags,
           i, crops, uploads, readtext_calls, blob_service_client, host_exception >>

\* --------------------------------------------------------------------------
\* Bounds of the model
\* --------------------------------------------------------------------------

\* Largest number of detections the OCR engine returns for one image.
MaxDet == 3

\* --------------------------------------------------------------------------
\* Configuration (module level constants of function_app.py)
\* --------------------------------------------------------------------------

DISCOUNT_KEYWORDS ==
    << <<"o","f","f">>, <<"%">>, <<"s","a","v","e">>, <<"f","r","e","e">>,
       <<"d","i","s","c","o","u","n","t">>, <<"o","f","f","e","r">>, <<"r","s">>,
       <<"!">>, <<"d","e","a","l","s">>, <<"k","e","e","l","s">> >>

\* 0.2, as the exact rational 2/10
FINAL_MIN_AREA_PERCENTAGE == [num |-> 2, den |-> 10]

\* 1.0
FINAL_MAX_AREA_PERCENTAGE == [num |-> 1, den |-> 1]

\* --------------------------------------------------------------------------
\* Text: str.lower(), str.strip(), the `in` operator
\* --------------------------------------------------------------------------

UpperCase == << "A","B","C","D","E","F","G","H","I","J","K","L","M",
                "N","O","P","Q","R","S","T","U","V","W","X","Y","Z" >>

LowerCase == << "a","b","c","d","e","f","g","h","i","j","k","l","m",
                "n","o","p","q","r","s","t","u","v","w","x","y","z" >>

Whitespace == { " ", "\t", "\n", "\r" }

LowerChar(c) ==
    IF \E k \in 1..Len(UpperCase) : UpperCase[k] = c
    THEN LowerCase[CHOOSE k \in 1..Len(UpperCase) : UpperCase[k] = c]
    ELSE c

Lower(text) == [k \in 1..Len(text) |-> LowerChar(text[k])]

RECURSIVE LStrip(_)
LStrip(text) ==
    IF text # << >> /\ Head(text) \in Whitespace THEN LStrip(Tail(text)) ELSE text

RECURSIVE RStrip(_)
RStrip(text) ==
    IF text # << >> /\ text[Len(text)] \in Whitespace
    THEN RStrip(SubSeq(text, 1, Len(text) - 1))
    ELSE text

Strip(text) == RStrip(LStrip(text))

\* keyword in text
Contains(keyword, text) ==
    \E k \in 0..(Len(text) - Len(keyword)) : SubSeq(text, k + 1, k + Len(keyword)) = keyword

\* --------------------------------------------------------------------------
\* Numbers: int() of a float, exact fractions for the area thresholds
\* --------------------------------------------------------------------------

\* int(v) for v held in half pixels: truncation toward zero
PyInt(v) == IF v >= 0 THEN v \div 2 ELSE -((-v) \div 2)

Max(a, b) == IF a >= b THEN a ELSE b

Min(a, b) == IF a <= b THEN a ELSE b

\* a < b for fractions with positive denominators
RatLess(a, b) == a.num * b.den < b.num * a.den

\* --------------------------------------------------------------------------
\* Candidate extraction (the loop over results)
\* --------------------------------------------------------------------------

\* a variant that truncates the corner points before subtracting them
BoxOfTruncFirst(bbox) ==
    LET tl == bbox[1]
        br == bbox[3]
    IN  << PyInt(tl[1]), PyInt(tl[2]),
           PyInt(br[1]) - PyInt(tl[1]), PyInt(br[2]) - PyInt(tl[2]) >>

\* the box of one detection's quadrilateral (tl, tr, br, bl)
BoxOf(bbox) ==
    LET tl == bbox[1]
        br == bbox[3]
        w  == PyInt(br[1] - tl[1])
        h  == PyInt(br[2] - tl[2])
        x  == PyInt(tl[1])
        y  == PyInt(tl[2])
    IN  << x, y, w, h >>

\* the inner loop over DISCOUNT_KEYWORDS from keyword number k on, without the
\* break: one append per matching keyword
RECURSIVE KeywordLoopNoBreak(_, _, _)
KeywordLoopNoBreak(bbox, text, k) ==
    IF k > Len(DISCOUNT_KEYWORDS) THEN << >>
    ELSE IF Contains(DISCOUNT_KEYWORDS[k], text)
         THEN << BoxOf(bbox) >> \o KeywordLoopNoBreak(bbox, text, k + 1)
         ELSE KeywordLoopNoBreak(bbox, text, k + 1)

\* the inner loop over DISCOUNT_KEYWORDS from keyword number k on: what it appends
RECURSIVE KeywordLoop(_, _, _)
KeywordLoop(bbox, text, k) ==
    IF k > Len(DISCOUNT_KEYWORDS) THEN << >>
    ELSE IF Contains(DISCOUNT_KEYWORDS[k], text)
         THEN << BoxOf(bbox) >>
         ELSE KeywordLoop(bbox, text, k + 1)

\* the outer loop over results from detection number n on: what it appends
RECURSIVE DetectionLoop(_, _)
DetectionLoop(res, n) ==
    IF n > Len(res) THEN << >>
    ELSE LET bbox == res[n][1]
             text == Strip(Lower(res[n][2]))
         IN  KeywordLoop(bbox, text, 1) \o DetectionLoop(res, n + 1)

\* --------------------------------------------------------------------------
\* Area filter
\* --------------------------------------------------------------------------

Range(s) == { s[k] : k \in 1..Len(s) }

\* all orders in which the elements of S can be iterated
Orderings(S) ==
    { s \in [1..Cardinality(S) -> S] : \A a, b \in 1..Cardinality(S) : a # b => s[a] # s[b] }

\* iterating the list itself
ListIterations(boxes) == { boxes }

\* the iteration orders of set(boxes); Python leaves the order of a set open
SetIterations(boxes) == Orderings(Range(boxes))

\* a variant that forgets the division by 100.0
FinalMinAreaNoPercent(total_area) ==
    [num |-> total_area * FINAL_MIN_AREA_PERCENTAGE.num,
     den |-> FINAL_MIN_AREA_PERCENTAGE.den]

\* total_area * (FINAL_MIN_AREA_PERCENTAGE / 100.0)
FinalMinArea(total_area) ==
    [num |-> total_area * FINAL_MIN_AREA_PERCENTAGE.num,
     den |-> FINAL_MIN_AREA_PERCENTAGE.den * 100]

\* total_area * (FINAL_MAX_AREA_PERCENTAGE / 1.0)
FinalMaxArea(total_area) ==
    [num |-> total_area * FINAL_MAX_AREA_PERCENTAGE.num,
     den |-> FINAL_MAX_AREA_PERCENTAGE.den * 1]

\* final_min_area <= area <= final_max_area
AreaInRangeInclusive(area, final_min_area, final_max_area) ==
    LET a == [num |-> area, den |-> 1]
    IN  ~RatLess(a, final_min_area) /\ ~RatLess(final_max_area, a)

\* final_min_area < area < final_max_area
AreaInRange(area, final_min_area, final_max_area) ==
    LET a == [num |-> area, den |-> 1]
    IN  RatLess(final_min_area, a) /\ RatLess(a, final_max_area)

\* the filter loop run over the boxes in the given order
FilterLoop(order, total_area) ==
    LET Keep(b) == AreaInRange(b[3] * b[4], FinalMinArea(total_area), FinalMaxArea(total_area))
    IN  SelectSeq(order, Keep)

\* --------------------------------------------------------------------------
\* Cropping: numpy basic slicing image[r0:r1, c0:c1]
\* --------------------------------------------------------------------------

\* slice(start, stop).indices(n): negative indices count from the end, then clamp
SliceIndex(v, n) ==
    LET shifted == IF v < 0 THEN v + n ELSE v
    IN  Max(0, Min(shifted, n))

\* the pixels image[r0:r1, c0:c1] selects, as a region of the image
Slice2D(r0, r1, c0, c1, shape) ==
    LET rs == SliceIndex(r0, shape[1])
        re == SliceIndex(r1, shape[1])
        cs == SliceIndex(c0, shape[2])
        ce == SliceIndex(c1, shape[2])
    IN  [x |-> cs, y |-> rs, width |-> Max(0, ce - cs), height |-> Max(0, re - rs)]

\* expanded_crop for one tag
ExpandedCrop(tag, shape) ==
    LET x == tag[1]
        y == tag[2]
        w == tag[3]
        h == tag[4]
        expanded_y_start == Max(0, y - h)
    IN  Slice2D(expanded_y_start, y + h, x, x + w, shape)

\* expanded_crop.size (three colour channels)
Size(crop) == crop.width * crop.height * 3

\* --------------------------------------------------------------------------
\* Blob names: os.path.basename, os.path.splitext, the f-string
\* --------------------------------------------------------------------------

\* index of the last occurrence of c in s, 0 if none
LastIndexOf(c, s) ==
    IF \E k \in 1..Len(s) : s[k] = c
    THEN CHOOSE k \in 1..Len(s) : s[k] = c /\ \A m \in (k+1)..Len(s) : s[m] # c
    ELSE 0

Basename(path) == SubSeq(path, LastIndexOf("/", path) + 1, Len(path))

\* os.path.splitext: split at the last dot, unless only leading dots precede it
Splitext(filename) ==
    LET dot == LastIndexOf(".", filename)
    IN  IF dot = 0 \/ \A k \in 1..(dot - 1) : filename[k] = "."
        THEN << filename, << >> >>
        ELSE << SubSeq(filename, 1, dot - 1), SubSeq(filename, dot, Len(filename)) >>

Digits == << "0","1","2","3","4","5","6","7","8","9" >>

\* str(n) for n >= 0
RECURSIVE Str(_)
Str(n) == IF n < 10 THEN << Digits[n + 1] >> ELSE Str(n \div 10) \o << Digits[(n % 10) + 1] >>

\* f"{name}_crop_{i+1}{ext}"
CropFilename(blobname, idx) ==
    LET parts == Splitext(Basename(blobname))
    IN  parts[1] \o << "_","c","r","o","p","_" >> \o Str(idx + 1) \o parts[2]

\* --------------------------------------------------------------------------
\* Inputs
\* --------------------------------------------------------------------------

\* a quadrilateral (tl, tr, br, bl) given by its tl and br corners, in half pixels
Quad(tlx, tly, brx, bry) == << <<tlx, tly>>, <<brx, tly>>, <<brx, bry>>, <<tlx, bry>> >>

Quads ==
    { Quad(20, 100, 60, 160),   \* (10,50)-(30,80)
      Quad(20, 10, 60, 70),     \* (10,5)-(30,35)
      Quad(0, 0, 100, 80),      \* (0,0)-(50,40), area 2000
      Quad(0, 0, 100, 100),     \* (0,0)-(50,50), area 2500
      Quad(0, 0, 100, 104),     \* (0,0)-(50,52), area 2600
      Quad(60, 70, 20, 10),     \* corners swapped: (30,35)-(10,5)
      Quad(-5, 5, 13, 25) }     \* (-2.5,2.5)-(6.5,12.5), reaching over the left edge

TextOffer == << " ","5","0","%"," ","O","F","F"," " >>

TextPlain == << "b","u","y"," ","2"," ","g","e","t"," ","1" >>

TextRs == << "R","u","a","i","R","S","\n" >>

\* every quadrilateral under a matching text, and one of them under the other texts
DetectionPool ==
    { << q, TextOffer, 9 >> : q \in Quads }
    \cup { << Quad(20, 10, 60, 70), t, 9 >> : t \in { TextPlain, TextRs } }

DetectionLists == UNION { [1..n -> DetectionPool] : n \in 0..MaxDet }

\* <<height, width>> of the decodable images
Shapes == { << 1000, 1000 >>, << 200, 200 >>, << 40, 50 >> }

BlobName == << "r","a","w","-","i","m","a","g","e","s","/",
               "s","h","e","l","f",".","v","2",".","j","p","g" >>

\* what the bytes of a blob are: an image (with what OCR finds in it), bytes that
\* imdecode cannot decode (it returns None), or an empty buffer (imdecode raises)
Blobs ==
    { [name |-> BlobName, kind |-> "image", shape |-> s, detections |-> d] :
          s \in Shapes, d \in DetectionLists }
    \cup { [name |-> BlobName, kind |-> k, shape |-> << 0, 0 >>, detections |-> << >>] :
          k \in { "garbage", "empty" } }

\* --------------------------------------------------------------------------
\* State machine
\* --------------------------------------------------------------------------

Init ==
    /\ inputBlob \in Blobs
    /\ pc = "decode"
    /\ exit = "none"
    /\ image = "unset"
    /\ results = << >>
    /\ candidate_boxes = << >>
    /\ final_selected_tags = << >>
    /\ i = 0
    /\ crops = << >>
    /\ uploads = << >>
    /\ readtext_calls = 0
    /\ blob_service_client = FALSE
    /\ host_exception = FALSE

\* a faulty variant: no return, the function goes on to the OCR call
AfterDecodeNoneContinue == [pc |-> "readtext", exit |-> "none"]

\* where the invocation goes when imdecode returned None: line 41 returns
AfterDecodeNone == [pc |-> "done", exit |-> "decode_none"]

\* lines 36-44, decodable bytes
DecodeOk ==
    /\ pc = "decode"
    /\ inputBlob.kind = "image"
    /\ image' = inputBlob.shape
    /\ pc' = "readtext"
    /\ UNCHANGED << inputBlob, exit, results, candidate_boxes, final_selected_tags, i,
                    crops, uploads, readtext_calls, blob_service_client, host_exception >>

\* lines 36-41, imdecode returns None
DecodeNone ==
    /\ pc = "decode"
    /\ inputBlob.kind = "garbage"
    /\ image' = "None"
    /\ pc' = AfterDecodeNone.pc
    /\ exit' = AfterDecodeNone.exit
    /\ UNCHANGED << inputBlob, results, candidate_boxes, final_selected_tags, i,
                    crops, uploads, readtext_calls, blob_service_client, host_exception >>

\* lines 36-37, read() or imdecode raises
DecodeRaises ==
    /\ pc = "decode"
    /\ inputBlob.kind = "empty"
    /\ pc' = "except"
    /\ UNCHANGED << inputBlob, exit, image, results, candidate_boxes, final_selected_tags,
                    i, crops, uploads, readtext_calls, blob_service_client, host_exception >>

\* line 49, the OCR call returns
ReadText ==
    /\ pc = "readtext"
    /\ readtext_calls' = readtext_calls + 1
    /\ results' = inputBlob.detections
    /\ pc' = "extract"
    /\ UNCHANGED << inputBlob, exit, image, candidate_boxes, final_selected_tags, i,
                    crops, uploads, blob_service_client, host_exception >>

\* line 49, the OCR call raises
ReadTextRaises ==
    /\ pc = "readtext"
    /\ readtext_calls' = readtext_calls + 1
    /\ pc' = "except"
    /\ UNCHANGED << inputBlob, exit, image, results, candidate_boxes, final_selected_tags,
                    i, crops, uploads, blob_service_client, host_exception >>

\* lines 47-65
Extract ==
    /\ pc = "extract"
    /\ candidate_boxes' = DetectionLoop(results, 1)
    /\ pc' = "filter"
    /\ UNCHANGED << inputBlob, exit, image, results, final_selected_tags, i, crops,
                    uploads, readtext_calls, blob_service_client, host_exception >>

\* lines 68-81
Filter ==
    /\ pc = "filter"
    /\ \E order \in SetIterations(candidate_boxes) :
           final_selected_tags' = FilterLoop(order, image[2] * image[1])
    /\ IF final_selected_tags' = << >>
       THEN pc' = "done" /\ exit' = "no_tags"
       ELSE pc' = "connect" /\ exit' = exit
    /\ UNCHANGED << inputBlob, image, results, candidate_boxes, i, crops, uploads,
                    readtext_calls, blob_service_client, host_exception >>

\* lines 84-86, the storage client is created
Connect ==
    /\ pc = "connect"
    /\ blob_service_client' = TRUE
    /\ i' = 0
    /\ pc' = "crop"
    /\ UNCHANGED << inputBlob, exit, image, results, candidate_boxes, final_selected_tags,
                    crops, uploads, readtext_calls, host_exception >>

\* line 84, from_connection_string raises
ConnectRaises ==
    /\ pc = "connect"
    /\ pc' = "except"
    /\ UNCHANGED << inputBlob, exit, image, results, candidate_boxes, final_selected_tags,
                    i, crops, uploads, readtext_calls, blob_service_client, host_exception >>

\* lines 89-94, an iteration whose crop is empty
CropSkip ==
    /\ pc = "crop"
    /\ i < Len(final_selected_tags)
    /\ LET expanded_crop == ExpandedCrop(final_selected_tags[i + 1], image)
       IN  /\ ~(Size(expanded_crop) > 0)
           /\ crops' = Append(crops, expanded_crop)
    /\ i' = i + 1
    /\ UNCHANGED << inputBlob, pc, exit, image, results, candidate_boxes,
                    final_selected_tags, uploads, readtext_calls, blob_service_client,
                    host_exception >>

\* lines 89-100, an iteration whose upload succeeds
CropUpload ==
    /\ pc = "crop"
    /\ i < Len(final_selected_tags)
    /\ LET expanded_crop == ExpandedCrop(final_selected_tags[i + 1], image)
       IN  /\ Size(expanded_crop) > 0
           /\ crops' = Append(crops, expanded_crop)
           /\ uploads' = Append(uploads, [blob |-> CropFilename(inputBlob.name, i),
                                          tag |-> final_selected_tags[i + 1],
                                          data |-> expanded_crop, ok |-> TRUE])
    /\ i' = i + 1
    /\ UNCHANGED << inputBlob, pc, exit, image, results, candidate_boxes,
                    final_selected_tags, readtext_calls, blob_service_client,
                    host_exception >>

\* lines 89-99, an iteration whose upload_blob raises: control leaves the loop
CropUploadRaises ==
    /\ pc = "crop"
    /\ i < Len(final_selected_tags)
    /\ LET expanded_crop == ExpandedCrop(final_selected_tags[i + 1], image)
       IN  /\ Size(expanded_crop) > 0
           /\ crops' = Append(crops, expanded_crop)
           /\ uploads' = Append(uploads, [blob |-> CropFilename(inputBlob.name, i),
                                          tag |-> final_selected_tags[i + 1],
                                          data |-> expanded_crop, ok |-> FALSE])
    /\ pc' = "except"
    /\ UNCHANGED << inputBlob, exit, image, results, candidate_boxes, final_selected_tags,
                    i, readtext_calls, blob_service_client, host_exception >>

\* the loop of line 89 is exhausted: the function returns
LoopEnd ==
    /\ pc = "crop"
    /\ i = Len(final_selected_tags)
    /\ pc' = "done"
    /\ exit' = "end"
    /\ UNCHANGED << inputBlob, image, results, candidate_boxes, final_selected_tags, i,
                    crops, uploads, readtext_calls, blob_service_client, host_exception >>

\* what the handler of line 102 lets out of the function: nothing
HandlerReraises == FALSE

\* lines 102-103: the exception is logged and swallowed
Except ==
    /\ pc = "except"
    /\ host_exception' = HandlerReraises
    /\ pc' = "done"
    /\ exit' = "except"
    /\ UNCHANGED << inputBlob, image, results, candidate_boxes, final_selected_tags, i,
                    crops, uploads, readtext_calls, blob_service_client >>

Next ==
    \/ DecodeOk
    \/ DecodeNone
    \/ DecodeRaises
    \/ ReadText
    \/ ReadTextRaises
    \/ Extract
    \/ Filter
    \/ Connect
    \/ ConnectRaises
    \/ CropSkip
    \/ CropUpload
    \/ CropUploadRaises
    \/ LoopEnd
    \/ Except

Spec == Init /\ [][Next]_vars

\* --------------------------------------------------------------------------
\* Vocabulary of the properties
\* --------------------------------------------------------------------------

\* the area filter has run
FilterDone == final_selected_tags # << >> \/ exit = "no_tags"

\* the extraction loop has run
Extracted == pc = "filter" \/ FilterDone

\* for every text of the inputs: once lowercased and stripped of surrounding
\* whitespace, it contains some configured keyword as a substring
ContainsKeyword ==
    [t \in { d[2] : d \in DetectionPool } |->
        \E k \in 1..Len(DISCOUNT_KEYWORDS) : Contains(DISCOUNT_KEYWORDS[k], Strip(Lower(t)))]

\* the text of a detection, normalized, contains some configured keyword
Matches(det) == ContainsKeyword[det[2]]

\* the detections that match, in the order of the detections
MatchingDetections(res) == SelectSeq(res, Matches)

Area(b) == b[3] * b[4]

TotalArea == image[1] * image[2]

\* n is v (in half pixels) truncated toward zero
IsTruncationOf(n, v) ==
    /\ v >= 0 => (2 * n <= v /\ v < 2 * n + 2)
    /\ v < 0  => (2 * n - 2 < v /\ v <= 2 * n)

\* the rectangle rows max(0, y-h)..y+h, columns x..x+w, intersected with the image
ClippedExpandedRectangle(tag, shape) ==
    LET top    == Max(0, tag[2] - tag[4])
        bottom == Min(shape[1], tag[2] + tag[4])
        left   == Max(0, tag[1])
        right  == Min(shape[2], tag[1] + tag[3])
    IN  [x |-> left, y |-> top, width |-> Max(0, right - left), height |-> Max(0, bottom - top)]

\* two regions hold the same pixels
SameRegion(r, s) ==
    \/ r.width * r.height = 0 /\ s.width * s.height = 0
    \/ r = s

\* --------------------------------------------------------------------------
\* Properties
\* --------------------------------------------------------------------------

\* C1: when one upload fails, every retained box whose crop is not empty still
\* gets an upload attempt before the invocation ends.
C1_RemainingUploadsAttempted ==
    (pc = "done" /\ \E m \in 1..Len(uploads) : ~uploads[m].ok)
    => \A k \in 1..Len(final_selected_tags) :
           Size(ExpandedCrop(final_selected_tags[k], image)) > 0
           => \E m \in 1..Len(uploads) : uploads[m].tag = final_selected_tags[k]

\* C2: the k-th uploaded crop is named <name>_crop_<k><ext>, also when a retained
\* box was skipped because its crop is empty.
C2_UploadIndicesContiguous ==
    \A k \in 1..Len(uploads) : uploads[k].blob = CropFilename(inputBlob.name, k - 1)

\* C3: no box with width <= 0 or height <= 0 is in the candidate list, and none
\* reaches the area filter's output or the crop loop.
C3_NoDegenerateCandidate ==
    /\ \A k \in 1..Len(candidate_boxes) : candidate_boxes[k][3] > 0 /\ candidate_boxes[k][4] > 0
    /\ \A k \in 1..Len(final_selected_tags) :
           final_selected_tags[k][3] > 0 /\ final_selected_tags[k][4] > 0

\* C4: a candidate box is retained iff minArea < w*h < maxArea, both strict, with
\* minArea = totalArea * 0.2/100 and maxArea = totalArea * 1.0.
C4_AreaFilterStrict ==
    FilterDone =>
        \A b \in Range(candidate_boxes) :
            b \in Range(final_selected_tags)
            <=> (2 * TotalArea < 1000 * Area(b) /\ Area(b) < TotalArea)

\* C4 witness: the filter has run on a box whose area is exactly minArea and
\* rejected it, and on a box strictly inside the range and kept it.
C4_Witness ==
    /\ FilterDone
    /\ \E b \in Range(candidate_boxes) :
           1000 * Area(b) = 2 * TotalArea /\ b \notin Range(final_selected_tags)
    /\ \E b \in Range(candidate_boxes) : b \in Range(final_selected_tags)

\* C5 as written: in a 1000x1000 image a box of area 2,500 is excluded and a box
\* of area 2,600 is included.
C5_Area2500Excluded ==
    (FilterDone /\ image = << 1000, 1000 >>) =>
        \A b \in Range(candidate_boxes) :
            /\ Area(b) = 2500 => b \notin Range(final_selected_tags)
            /\ Area(b) = 2600 => b \in Range(final_selected_tags)

\* C5 amended: in a 1000x1000 image the boundary is area 2,000, which is
\* excluded; boxes of area 2,500 and of area 2,600 are both included.
C5_Area2000Excluded ==
    (FilterDone /\ image = << 1000, 1000 >>) =>
        \A b \in Range(candidate_boxes) :
            /\ Area(b) = 2000 => b \notin Range(final_selected_tags)
            /\ Area(b) = 2500 => b \in Range(final_selected_tags)
            /\ Area(b) = 2600 => b \in Range(final_selected_tags)

\* C5 witness: the filter has run on a 1000x1000 image with boxes of area 2,000,
\* 2,500 and 2,600.
C5_Witness ==
    /\ FilterDone
    /\ image = << 1000, 1000 >>
    /\ \A a \in { 2000, 2500, 2600 } : \E b \in Range(candidate_boxes) : Area(b) = a

\* the input of the end-to-end example of C6: two matching detections with the same
\* box, at least one detection that matches no keyword, the box inside the area
\* range and its crop not empty
C6_Example ==
    /\ inputBlob.kind = "image"
    /\ LET dets == inputBlob.detections
           hits == { k \in 1..Len(dets) : Matches(dets[k]) }
       IN  /\ Cardinality(hits) = 2
           /\ Cardinality(hits) < Len(dets)
           /\ \A a, b \in hits : BoxOf(dets[a][1]) = BoxOf(dets[b][1])
           /\ \A a \in hits :
                  LET box == BoxOf(dets[a][1])
                      total == inputBlob.shape[1] * inputBlob.shape[2]
                  IN  /\ 2 * total < 1000 * Area(box)
                      /\ Area(box) < total
                      /\ Size(ExpandedCrop(box, inputBlob.shape)) > 0

\* C6: no two uploads of an invocation are for the same box value; and in the
\* example exactly one crop is uploaded, with index 1, for the matching
\* detections' box (never more than that one, and that one once the loop ends).
C6_OneCropPerDistinctBox ==
    /\ \A m, n \in 1..Len(uploads) : m # n => uploads[m].tag # uploads[n].tag
    /\ C6_Example =>
           /\ Len(uploads) <= 1
           /\ \A m \in 1..Len(uploads) :
                  /\ uploads[m].blob = CropFilename(inputBlob.name, 0)
                  /\ \E k \in 1..Len(inputBlob.detections) :
                         /\ Matches(inputBlob.detections[k])
                         /\ uploads[m].tag = BoxOf(inputBlob.detections[k][1])
           /\ exit = "end" => Len(uploads) = 1

\* C6 witness: the example has run to the end of the loop with its one upload.
C6_Witness ==
    /\ C6_Example
    /\ exit = "end"
    /\ Len(uploads) = 1
    /\ uploads[1].ok

\* C7: the region cropped for a retained box is the rectangle rows max(0, y-h) to
\* y+h, columns x to x+w, intersected with the image; it lies inside the image and
\* a region without pixels is never uploaded.
C7_CropIsClippedExpandedRectangle ==
    /\ \A k \in 1..Len(crops) :
           /\ SameRegion(crops[k], ClippedExpandedRectangle(final_selected_tags[k], image))
           /\ crops[k].y >= 0
           /\ crops[k].x + crops[k].width <= image[2]
           /\ crops[k].y + crops[k].height <= image[1]
    /\ \A m \in 1..Len(uploads) : uploads[m].data.width * uploads[m].data.height > 0

\* C8: the candidate list is exactly the boxes of the detections whose normalized
\* text contains a keyword, one box per such detection, in detection order.
C8_CandidatesAreMatchingDetections ==
    Extracted =>
        LET hits == MatchingDetections(results)
        IN  candidate_boxes = [k \in 1..Len(hits) |-> BoxOf(hits[k][1])]

\* C8 witness: extraction has run on detections of which one matches several
\* keywords, one matches only after lowercasing, and one matches none.
C8_Witness ==
    /\ Extracted
    /\ \E k \in 1..Len(results) : results[k][2] = TextOffer
    /\ \E k \in 1..Len(results) : results[k][2] = TextRs
    /\ \E k \in 1..Len(results) : results[k][2] = TextPlain
    /\ Len(candidate_boxes) = 2

\* C9: for bytes that do not decode, OCR is never called, no storage client is
\* created, nothing is cropped or uploaded, no exception reaches the host, and
\* the invocation ends by the early return or by the handler.
C9_UndecodableRunsNoFurtherStage ==
    inputBlob.kind # "image" =>
        /\ readtext_calls = 0
        /\ ~blob_service_client
        /\ uploads = << >>
        /\ crops = << >>
        /\ ~host_exception
        /\ pc \in { "decode", "except", "done" }
        /\ pc = "done" => exit \in { "decode_none", "except" }

\* C9 witness: an invocation on undecodable bytes has ended by the early return.
C9_Witness ==
    /\ inputBlob.kind = "garbage"
    /\ image = "None"
    /\ pc = "done"
    /\ exit = "decode_none"

\* C10 as written: each candidate box is x = trunc(tl.x), y = trunc(tl.y),
\* width = trunc(br.x) - trunc(tl.x), height = trunc(br.y) - trunc(tl.y).
C10_BoxFromTruncatedPoints ==
    Extracted =>
        LET hits == MatchingDetections(results)
        IN  \A k \in 1..Len(hits) :
                LET tl == hits[k][1][1]
                    br == hits[k][1][3]
                IN  /\ k <= Len(candidate_boxes)
                    /\ candidate_boxes[k] = << PyInt(tl[1]), PyInt(tl[2]),
                                               PyInt(br[1]) - PyInt(tl[1]),
                                               PyInt(br[2]) - PyInt(tl[2]) >>

\* C10 amended: each candidate box is x = trunc(tl.x), y = trunc(tl.y),
\* width = trunc(br.x - tl.x), height = trunc(br.y - tl.y): the differences are
\* truncated, not the points.
C10_BoxFromTruncatedDifference ==
    Extracted =>
        LET hits == MatchingDetections(results)
        IN  /\ Len(candidate_boxes) = Len(hits)
            /\ \A k \in 1..Len(hits) :
                   LET tl == hits[k][1][1]
                       br == hits[k][1][3]
                       b  == candidate_boxes[k]
                   IN  /\ IsTruncationOf(b[1], tl[1])
                       /\ IsTruncationOf(b[2], tl[2])
                       /\ IsTruncationOf(b[3], br[1] - tl[1])
                       /\ IsTruncationOf(b[4], br[2] - tl[2])

\* C10 witness: extraction has run on a matching detection with a fractional
\* top-left corner, for which truncating the points first gives another width.
C10_Witness ==
    /\ Extracted
    /\ \E k \in 1..Len(results) :
           LET tl == results[k][1][1]
               br == results[k][1][3]
           IN  /\ Matches(results[k])
               /\ tl[1] % 2 = 1
               /\ BoxOf(results[k][1]) \in Range(candidate_boxes)
               /\ BoxOf(results[k][1])[3] # PyInt(br[1]) - PyInt(tl[1])

====
